---------------------------- MODULE Spec2Model ----------------------------
(***************************************************************************)
(* Model of the product admin console (src/src/App.jsx): the React state   *)
(* of the App component, the cookie that holds the credential, the         *)
(* backend's product collection, and the asynchronous handlers as tasks    *)
(* suspended at their await points.                                        *)
(***************************************************************************)
EXTENDS Integers, Sequences, FiniteSets, TLC

VARIABLES
    isAuth,           \* useState(false)
    isCheckingAuth,   \* useState(true)
    isLoading,        \* useState(false)
    products,         \* useState([]) : the local product list
    templateProduct,  \* useState(initialProduct) : the draft of the modal
    tempImageInput,   \* useState('') : the pending image url
    modeType,         \* useState('')
    modalShown,       \* modalInstanceRef.current is shown
    cookie,           \* the persisted credential ("" when none is stored)
    srvProducts,      \* the backend's product collection
    tasks,            \* handlers suspended at an await, with their request
    started,          \* the mount effect has called checkAdmin
    alerts,           \* the alert() calls made by the last step
    thrown,           \* the handler whose promise the last step rejected
    lastOp            \* the step taken last

uiVars    == <<isAuth, isCheckingAuth, isLoading, products>>
draftVars == <<templateProduct, tempImageInput, modeType, modalShown>>
netVars   == <<cookie, srvProducts, tasks, started>>
obsVars   == <<alerts, thrown, lastOp>>
vars      == <<uiVars, draftVars, netVars, obsVars>>

----------------------------------------------------------------------------
(* Bounds *)

\* handlers that may be suspended at an await at the same time
MaxTasks == 2

\* the urls the user types into the image input
Urls == {"a", "b"}

----------------------------------------------------------------------------
(* Values *)

\* a property that is absent (undefined)
Undef == "<undefined>"

\* a string that JavaScript treats as false
Falsy(v) == v = Undef \/ v = ""

\* The values of the fields the form edits, with their JavaScript type:
\* a number, a string (what an input element yields), a boolean (a checkbox)
Num(n) == <<"number", n>>

Str(s) == <<"string", s>>

Bool(b) == <<"boolean", b>>

\* initialProduct
initialProduct ==
    [ id |-> "", title |-> "", category |-> "", origin_price |-> Num(0),
      price |-> Num(0), unit |-> "", description |-> "", content |-> "",
      is_enabled |-> Num(0), imageUrl |-> "", imagesUrl |-> <<>> ]

NoOp == [op |-> "init", id |-> "", index |-> 0, ok |-> TRUE, value |-> ""]

Op(name) == [NoOp EXCEPT !.op = name]

RemoveAt(s, i) == [j \in 1..(Len(s) - 1) |-> IF j < i THEN s[j] ELSE s[j + 1]]

----------------------------------------------------------------------------
(* Image slots of the draft *)

\* const totalImages = (currentMain ? 1 : 0) + currentSubs.length
totalImages(draft) ==
    (IF Falsy(draft.imageUrl) THEN 0 ELSE 1) + Len(draft.imagesUrl)

\* allImages: the flat sequence the view renders
allImages(draft) ==
    IF Falsy(draft.imageUrl) THEN <<>> ELSE <<draft.imageUrl>> \o draft.imagesUrl

\* the limit check of handleAddImage
MaxImages == 4

AddImageLimitOffByOne(draft, url) ==
    IF url = "" THEN draft
    ELSE IF totalImages(draft) > MaxImages THEN draft
    ELSE IF Falsy(draft.imageUrl)
        THEN [draft EXCEPT !.imageUrl = url]
        ELSE [draft EXCEPT !.imagesUrl = Append(draft.imagesUrl, url)]

AddImageEmptyUrl(draft, url) ==
    IF totalImages(draft) >= MaxImages THEN draft
    ELSE IF Falsy(draft.imageUrl)
        THEN [draft EXCEPT !.imageUrl = url]
        ELSE [draft EXCEPT !.imagesUrl = Append(draft.imagesUrl, url)]

\* the draft handleAddImage leaves when the pending url is url
AddImage(draft, url) ==
    IF url = "" THEN draft
    ELSE IF totalImages(draft) >= MaxImages THEN draft
    ELSE IF Falsy(draft.imageUrl)
        THEN [draft EXCEPT !.imageUrl = url]
        ELSE [draft EXCEPT !.imagesUrl = Append(draft.imagesUrl, url)]

RemoveImageKeepPrimary(draft, index) ==
    IF index = 0
        THEN IF Len(draft.imagesUrl) > 0
                THEN [draft EXCEPT !.imagesUrl = Tail(draft.imagesUrl)]
                ELSE [draft EXCEPT !.imageUrl = ""]
        ELSE [draft EXCEPT !.imagesUrl =
                 IF index <= Len(draft.imagesUrl)
                    THEN RemoveAt(draft.imagesUrl, index) ELSE draft.imagesUrl]

RemoveImageOffByOne(draft, index) ==
    IF index = 0
        THEN IF Len(draft.imagesUrl) > 0
                THEN [draft EXCEPT !.imageUrl = Head(draft.imagesUrl),
                                   !.imagesUrl = Tail(draft.imagesUrl)]
                ELSE [draft EXCEPT !.imageUrl = "", !.imagesUrl = <<>>]
        ELSE [draft EXCEPT !.imagesUrl =
                 IF index + 1 <= Len(draft.imagesUrl)
                    THEN RemoveAt(draft.imagesUrl, index + 1)
                    ELSE draft.imagesUrl]

\* the draft handleRemoveImage(index) leaves
RemoveImage(draft, index) ==
    IF index = 0
        THEN IF Len(draft.imagesUrl) > 0
                THEN [draft EXCEPT !.imageUrl = Head(draft.imagesUrl),
                                   !.imagesUrl = Tail(draft.imagesUrl)]
                ELSE [draft EXCEPT !.imageUrl = "", !.imagesUrl = <<>>]
        ELSE [draft EXCEPT !.imagesUrl =
                 \* splice(index - 1, 1), counted from 0: the element at index
                 IF index <= Len(draft.imagesUrl)
                    THEN RemoveAt(draft.imagesUrl, index)
                    ELSE draft.imagesUrl]

isFormMode == modeType \in {"add", "edit"}

\* onChange of the image input
setTempImageInput(url) ==
    /\ modalShown /\ isFormMode
    /\ url # tempImageInput
    /\ tempImageInput' = url
    /\ alerts' = <<>> /\ thrown' = "" /\ lastOp' = Op("setTempImageInput")
    /\ UNCHANGED <<templateProduct, modeType, modalShown, uiVars, netVars>>

handleAddImage ==
    /\ modalShown /\ isFormMode
    /\ templateProduct' = AddImage(templateProduct, tempImageInput)
    /\ tempImageInput' =
          IF tempImageInput = "" \/ totalImages(templateProduct) >= MaxImages
             THEN tempImageInput ELSE ""
    /\ alerts' =
          IF tempImageInput # "" /\ totalImages(templateProduct) >= MaxImages
             THEN << <<"imageLimit", "">> >> ELSE <<>>
    /\ thrown' = ""
    /\ lastOp' = [Op("handleAddImage") EXCEPT
                     !.id = tempImageInput,
                     !.ok = (tempImageInput # ""
                             /\ totalImages(templateProduct) < MaxImages)]
    /\ UNCHANGED <<modeType, modalShown, uiVars, netVars>>

\* the delete button of the image at position index of allImages
handleRemoveImage(index) ==
    /\ modalShown /\ isFormMode
    /\ index \in 0..(Len(allImages(templateProduct)) - 1)
    /\ templateProduct' = RemoveImage(templateProduct, index)
    /\ alerts' = <<>> /\ thrown' = ""
    /\ lastOp' = [Op("handleRemoveImage") EXCEPT !.index = index]
    /\ UNCHANGED <<tempImageInput, modeType, modalShown, uiVars, netVars>>

\* the Dashboard is rendered
DashboardShown == ~isCheckingAuth /\ isAuth

\* the Login view is rendered
LoginShown == ~isCheckingAuth /\ ~isAuth

\* { ...initialProduct, ...product }
Merged(base, product) ==
    [f \in DOMAIN initialProduct |->
        IF f \in DOMAIN product THEN product[f] ELSE base[f]]

OpenLastOp(type, product) ==
    [Op("openModal") EXCEPT
        !.id = type,
        \* the place of the product in the list, 0 for none
        !.index = IF \E k \in DOMAIN products : products[k] = product
                     THEN CHOOSE k \in DOMAIN products : products[k] = product
                     ELSE 0]

openModalStaleDefault(type, product) ==
    /\ DashboardShown
    /\ modeType' = type
    /\ templateProduct' = IF product = initialProduct THEN templateProduct
                          ELSE Merged(initialProduct, product)
    /\ modalShown' = TRUE
    /\ alerts' = <<>> /\ thrown' = ""
    /\ lastOp' = OpenLastOp(type, product)
    /\ UNCHANGED <<tempImageInput, uiVars, netVars>>

openModalOverPrev(type, product) ==
    /\ DashboardShown
    /\ modeType' = type
    /\ templateProduct' = Merged(templateProduct, product)
    /\ modalShown' = TRUE
    /\ alerts' = <<>> /\ thrown' = ""
    /\ lastOp' = OpenLastOp(type, product)
    /\ UNCHANGED <<tempImageInput, uiVars, netVars>>

openModal(type, product) ==
    /\ DashboardShown
    /\ modeType' = type
    /\ templateProduct' = Merged(initialProduct, product)
    /\ modalShown' = TRUE
    /\ alerts' = <<>> /\ thrown' = ""
    /\ lastOp' = OpenLastOp(type, product)
    /\ UNCHANGED <<tempImageInput, uiVars, netVars>>

closeModalReset ==
    /\ modalShown
    /\ modalShown' = FALSE
    /\ templateProduct' = initialProduct
    /\ modeType' = ""
    /\ alerts' = <<>> /\ thrown' = "" /\ lastOp' = Op("closeModal")
    /\ UNCHANGED <<tempImageInput, uiVars, netVars>>

closeModal ==
    /\ modalShown
    /\ modalShown' = FALSE
    /\ alerts' = <<>> /\ thrown' = "" /\ lastOp' = Op("closeModal")
    /\ UNCHANGED <<templateProduct, tempImageInput, modeType, uiVars, netVars>>

----------------------------------------------------------------------------
(* Form input *)

\* what the user types into a number input
NumberInputs == {"", "-5", "12"}

\* Number(value) for the text of a number input
ParseNumber(text) ==
    CASE text = ""   -> 0
      [] text = "-5" -> 0 - 5
      [] text = "12" -> 12

\* Number(v) for the value of a field
ToNumber(v) ==
    CASE v[1] = "number"  -> v[2]
      [] v[1] = "string"  -> ParseNumber(v[2])
      [] v[1] = "boolean" -> IF v[2] THEN 1 ELSE 0

\* v ? ... : ... for the value of a field
Truthy(v) ==
    CASE v[1] = "number"  -> v[2] # 0
      [] v[1] = "string"  -> v[2] # ""
      [] v[1] = "boolean" -> v[2]

\* the change events of the form: a text field, a number field, the checkbox
InputEvents ==
    {[name |-> "title", type |-> "text", value |-> v, checked |-> FALSE] :
        v \in {"", "t"}}
    \cup {[name |-> "origin_price", type |-> "number", value |-> v,
           checked |-> FALSE] : v \in NumberInputs}
    \cup {[name |-> "is_enabled", type |-> "checkbox", value |-> "on",
           checked |-> c] : c \in BOOLEAN}

ModalInputValueRaw(e) ==
    IF e.type = "checkbox" THEN Bool(e.checked)
    ELSE IF e.type = "number" THEN Str(e.value)
    ELSE e.value

\* newValue of handleModalInputChange
ModalInputValue(e) ==
    IF e.type = "checkbox" THEN Bool(e.checked)
    ELSE IF e.type = "number"
        THEN IF e.value = "" THEN Str("")
             ELSE IF ParseNumber(e.value) < 0 THEN Num(0)
             ELSE Str(e.value)
    ELSE e.value

handleModalInputChange(e) ==
    /\ modalShown /\ isFormMode
    /\ templateProduct' = [templateProduct EXCEPT ![e.name] = ModalInputValue(e)]
    /\ alerts' = <<>> /\ thrown' = ""
    /\ lastOp' = [Op("handleModalInputChange") EXCEPT
                     !.id = e.name, !.value = e.value, !.ok = e.checked]
    /\ UNCHANGED <<tempImageInput, modeType, modalShown, uiVars, netVars>>

----------------------------------------------------------------------------
(* Credential store, errors, requests *)

\* the token the sign-in endpoint issues
Token == "tok"

getToken == cookie

setToken(token) == token

removeToken == ""

NoErr   == [respMessage |-> Undef, message |-> Undef]
NetErr  == [respMessage |-> Undef, message |-> "Network Error"]
ApiErr  == [respMessage |-> "api message", message |-> "Request failed"]
TypeErr == [respMessage |-> Undef, message |-> "Cannot read properties"]

UnknownError == "unknown error"

\* the errors a request is rejected with: each of the two messages absent,
\* empty or present
Errors ==
    {[respMessage |-> r, message |-> t] :
        r \in {Undef, "", "api message"}, t \in {Undef, "", "Network Error"}}

getErrorMessageTransportFirst(error) ==
    IF ~Falsy(error.message) THEN error.message
    ELSE IF ~Falsy(error.respMessage) THEN error.respMessage
    ELSE UnknownError

\* error?.response?.data?.message || error.message || fallback
getErrorMessage(error) ==
    IF ~Falsy(error.respMessage) THEN error.respMessage
    ELSE IF ~Falsy(error.message) THEN error.message
    ELSE UnknownError

\* a request that has not been answered
Pending ==
    [status |-> "pending", success |-> FALSE, products |-> <<>>,
     token |-> "", message |-> "", err |-> NoErr]

Resolved == [Pending EXCEPT !.status = "ok"]

Rejected(error) == [Pending EXCEPT !.status = "err", !.err = error]

\* a handler suspended at the await named pc
Task(kind, pc, id, data) ==
    [kind |-> kind, pc |-> pc, id |-> id, data |-> data, reply |-> Pending]

Awaiting(i, kind, pc) ==
    /\ i \in DOMAIN tasks
    /\ tasks[i].kind = kind /\ tasks[i].pc = pc
    /\ tasks[i].reply.status = "pending"

Answered(i, kind, pc) ==
    /\ i \in DOMAIN tasks
    /\ tasks[i].kind = kind /\ tasks[i].pc = pc
    /\ tasks[i].reply.status # "pending"

Answer(i, reply) == [tasks EXCEPT ![i].reply = reply]

Product(id, enabled, main, subs) ==
    [initialProduct EXCEPT !.id = id, !.title = id, !.is_enabled = Num(enabled),
                           !.imageUrl = main, !.imagesUrl = subs]

\* the collection the backend holds at the start
ServerProducts ==
    << Product("p1", 1, "a", <<"b">>), Product("p2", 0, "", <<>>) >>

\* the ids a status toggle is called with: a product of the collection and
\* an id that no product has
ProductIds == {"p1", "p3"}

Accounts == {"valid", "invalid"}

Quiet(op) == alerts' = <<>> /\ thrown' = "" /\ lastOp' = op

----------------------------------------------------------------------------
(* The backend: how each awaited request settles *)

\* POST api/user/check
ServeCheck(i) ==
    /\ Awaiting(i, "checkAdmin", "verify")
    /\ \E reply \in {[Resolved EXCEPT !.success = TRUE], Resolved,
                     Rejected(NetErr), Rejected(ApiErr)} :
          tasks' = Answer(i, reply)
    /\ Quiet(Op("serve"))
    /\ UNCHANGED <<uiVars, draftVars, cookie, srvProducts, started>>

\* POST admin/signin
ServeSignin(i) ==
    /\ Awaiting(i, "handleLogin", "signin")
    /\ \E reply \in IF tasks[i].id = "valid"
                      THEN {[Resolved EXCEPT !.token = Token], Rejected(NetErr)}
                      ELSE {Rejected(ApiErr)} :
          tasks' = Answer(i, reply)
    /\ Quiet(Op("serve"))
    /\ UNCHANGED <<uiVars, draftVars, cookie, srvProducts, started>>

\* POST logout
ServeLogout(i) ==
    /\ Awaiting(i, "handleLogout", "logout")
    /\ \E reply \in {[Resolved EXCEPT !.message = "logged out"],
                     Rejected(NetErr)} :
          tasks' = Answer(i, reply)
    /\ Quiet(Op("serve"))
    /\ UNCHANGED <<uiVars, draftVars, cookie, srvProducts, started>>

\* GET products
ServeProducts(i) ==
    /\ i \in DOMAIN tasks
    /\ tasks[i].pc = "products" /\ tasks[i].reply.status = "pending"
    /\ \E reply \in {[Resolved EXCEPT !.products = srvProducts],
                     Rejected(NetErr)} :
          tasks' = Answer(i, reply)
    /\ Quiet(Op("serve"))
    /\ UNCHANGED <<uiVars, draftVars, cookie, srvProducts, started>>

\* PUT product/{id}
ServePut(i) ==
    /\ i \in DOMAIN tasks
    /\ tasks[i].pc = "put" /\ tasks[i].reply.status = "pending"
    /\ \/ /\ \E k \in DOMAIN srvProducts : srvProducts[k].id = tasks[i].id
          /\ srvProducts' =
                [k \in DOMAIN srvProducts |->
                    IF srvProducts[k].id = tasks[i].id
                       THEN tasks[i].data ELSE srvProducts[k]]
          /\ tasks' = Answer(i, [Resolved EXCEPT !.message = "updated"])
       \/ /\ \E error \in {NetErr, ApiErr} : tasks' = Answer(i, Rejected(error))
          /\ UNCHANGED srvProducts
    /\ Quiet(Op("serve"))
    /\ UNCHANGED <<uiVars, draftVars, cookie, started>>

\* the id the backend gives to a created product
NewId == "p5"

\* POST product
ServePost(i) ==
    /\ i \in DOMAIN tasks
    /\ tasks[i].pc = "post" /\ tasks[i].reply.status = "pending"
    /\ \/ /\ \A k \in DOMAIN srvProducts : srvProducts[k].id # NewId
          /\ srvProducts' = Append(srvProducts, [tasks[i].data EXCEPT !.id = NewId])
          /\ tasks' = Answer(i, [Resolved EXCEPT !.message = "created"])
       \/ /\ \E error \in {NetErr, ApiErr} : tasks' = Answer(i, Rejected(error))
          /\ UNCHANGED srvProducts
    /\ Quiet(Op("serve"))
    /\ UNCHANGED <<uiVars, draftVars, cookie, started>>

\* DELETE product/{id}
ServeDelete(i) ==
    /\ i \in DOMAIN tasks
    /\ tasks[i].pc = "delete" /\ tasks[i].reply.status = "pending"
    /\ \/ /\ \E k \in DOMAIN srvProducts : srvProducts[k].id = tasks[i].id
          /\ srvProducts' = SelectSeq(srvProducts,
                                LAMBDA item : item.id # tasks[i].id)
          /\ tasks' = Answer(i, [Resolved EXCEPT !.message = "deleted"])
       \/ /\ \E error \in {NetErr, ApiErr} : tasks' = Answer(i, Rejected(error))
          /\ UNCHANGED srvProducts
    /\ Quiet(Op("serve"))
    /\ UNCHANGED <<uiVars, draftVars, cookie, started>>

\* a request of any kind is rejected, with any of the errors
ServeError(i) ==
    /\ i \in DOMAIN tasks
    /\ tasks[i].reply.status = "pending"
    /\ \E error \in Errors : tasks' = Answer(i, Rejected(error))
    /\ Quiet(Op("serve"))
    /\ UNCHANGED <<uiVars, draftVars, cookie, srvProducts, started>>

\* the cookie reaches its expiry
cookieExpires ==
    /\ ~Falsy(cookie)
    /\ cookie' = ""
    /\ Quiet(Op("cookieExpires"))
    /\ UNCHANGED <<uiVars, draftVars, srvProducts, tasks, started>>

----------------------------------------------------------------------------
(* Product store *)

getProductsKeepOld(reply, prev) == prev

getProductsMerge(reply, prev) ==
    IF reply.status = "ok"
       THEN prev \o SelectSeq(reply.products, LAMBDA item : ~\E k \in DOMAIN prev : prev[k].id = item.id)
       ELSE prev

\* getProducts: the local list once its request has settled
getProducts(reply, prev) ==
    IF reply.status = "ok" THEN reply.products ELSE prev

\* products.find((product) => product.id === id) is not undefined
Has(list, id) == \E k \in DOMAIN list : list[k].id = id

\* products.find((product) => product.id === id), when there is one
Find(list, id) ==
    list[CHOOSE k \in DOMAIN list :
            list[k].id = id /\ \A j \in 1..(k - 1) : list[j].id # id]

\* target.is_enabled === 1 ? 0 : 1
Flipped(enabled) == IF enabled = Num(1) THEN Num(0) ELSE Num(1)

StatusMapAll(prev, id, enabled) ==
    [k \in DOMAIN prev |-> [prev[k] EXCEPT !.is_enabled = enabled]]

\* prev.map((item) => (item.id === id ? { ...item, is_enabled } : item))
StatusMap(prev, id, enabled) ==
    [k \in DOMAIN prev |->
        IF prev[k].id = id THEN [prev[k] EXCEPT !.is_enabled = enabled]
                           ELSE prev[k]]

updateProductStatusCatchAlert(error) ==
    /\ alerts' = << <<"toggleError", getErrorMessage(error)>> >>
    /\ thrown' = ""
    /\ UNCHANGED products

\* catch (error) { console.error(...) }
updateProductStatusCatch(error) ==
    /\ alerts' = <<>>
    /\ thrown' = ""
    /\ UNCHANGED products

updateProductStatus(id) ==
    /\ DashboardShown
    /\ LET target == Find(products, id) IN
          IF ~Has(products, id)
             THEN \* target.is_enabled throws inside the try
                  /\ updateProductStatusCatch(TypeErr)
                  /\ tasks' = tasks
                  /\ lastOp' = [Op("updateProductStatus") EXCEPT
                                   !.id = id, !.ok = FALSE]
             ELSE /\ Len(tasks) < MaxTasks
                  /\ tasks' = Append(tasks,
                        Task("updateProductStatus", "put", id,
                             [target EXCEPT
                                 !.is_enabled = Flipped(target.is_enabled)]))
                  /\ Quiet([Op("updateProductStatus") EXCEPT !.id = id])
                  /\ UNCHANGED products
    /\ UNCHANGED <<isAuth, isCheckingAuth, isLoading, draftVars,
                   cookie, srvProducts, started>>

\* the continuation of updateProductStatus after its await
updateProductStatusDone(i) ==
    /\ Answered(i, "updateProductStatus", "put")
    /\ LET t == tasks[i] IN
          /\ IF t.reply.status = "ok"
                THEN /\ alerts' = << <<"message", t.reply.message>> >>
                     /\ thrown' = ""
                     /\ products' = StatusMap(products, t.id, t.data.is_enabled)
                ELSE updateProductStatusCatch(t.reply.err)
          /\ lastOp' = [Op("updateProductStatus.done") EXCEPT
                           !.id = t.id, !.index = i,
                           !.ok = (t.reply.status = "ok")]
    /\ tasks' = RemoveAt(tasks, i)
    /\ UNCHANGED <<isAuth, isCheckingAuth, isLoading, draftVars,
                   cookie, srvProducts, started>>

----------------------------------------------------------------------------
(* Product editor: create, update and delete *)

isPreview == modeType = "preview"

\* the create, update and delete requests in flight, and how many of them
\* the editor is followed through at once
MaxSubmits == 1

Submits == {i \in DOMAIN tasks :
               tasks[i].kind \in {"updateProduct", "deleteProduct"}}

productDataPassThrough(product) ==
    [product EXCEPT
        !.origin_price = Num(ToNumber(product.origin_price)),
        !.price = Num(ToNumber(product.price))]

\* updateProduct: productData.data
productData(product) ==
    [product EXCEPT
        !.origin_price = Num(ToNumber(product.origin_price)),
        !.price = Num(ToNumber(product.price)),
        !.is_enabled = IF Truthy(product.is_enabled) THEN Num(1) ELSE Num(0),
        !.imagesUrl = SelectSeq(product.imagesUrl, LAMBDA url : url # "")]

\* updateProduct up to its first await, called by the submit button
updateProduct ==
    /\ modalShown /\ isFormMode
    /\ Cardinality(Submits) < MaxSubmits
    /\ tasks' = Append(tasks,
          Task("updateProduct", IF modeType = "add" THEN "post" ELSE "put",
               templateProduct.id, productData(templateProduct)))
    /\ Quiet([Op("updateProduct") EXCEPT !.id = modeType])
    /\ UNCHANGED <<uiVars, draftVars, cookie, srvProducts, started>>

updateProductCatchSameAlert(mode, error) ==
    alerts' = << <<"updateError", getErrorMessage(error)>> >>

\* catch (error) { if (modeType === 'add') alert(...) else alert(...) }
updateProductCatch(mode, error) ==
    alerts' = << <<IF mode = "add" THEN "createError" ELSE "updateError",
                   getErrorMessage(error)>> >>

\* the continuation of updateProduct after its post or put
updateProductDone(i) ==
    /\ i \in DOMAIN tasks
    /\ tasks[i].kind = "updateProduct" /\ tasks[i].pc \in {"post", "put"}
    /\ tasks[i].reply.status # "pending"
    /\ LET t    == tasks[i]
           mode == IF t.pc = "post" THEN "add" ELSE "edit" IN
          /\ IF t.reply.status = "ok"
                THEN /\ alerts' = IF t.pc = "post"
                                     THEN << <<"created", "">> >>
                                     ELSE << <<"message", t.reply.message>> >>
                     /\ tasks' = [tasks EXCEPT ![i] =
                           Task("updateProduct", "products", t.id, t.data)]
                ELSE /\ updateProductCatch(mode, t.reply.err)
                     /\ tasks' = RemoveAt(tasks, i)
          /\ lastOp' = [Op("updateProduct.done") EXCEPT
                           !.id = mode, !.index = i,
                           !.ok = (t.reply.status = "ok")]
    /\ thrown' = ""
    /\ UNCHANGED <<uiVars, draftVars, cookie, srvProducts, started>>

submitProductsKeepOpen(i) ==
    /\ products' = getProducts(tasks[i].reply, products)
    /\ modalShown' = modalShown

\* await getProducts(); closeModal();
submitProducts(i) ==
    /\ products' = getProducts(tasks[i].reply, products)
    /\ modalShown' = FALSE

\* the continuation of updateProduct after await getProducts()
updateProductProducts(i) ==
    /\ Answered(i, "updateProduct", "products")
    /\ submitProducts(i)
    /\ tasks' = RemoveAt(tasks, i)
    /\ Quiet([Op("updateProduct.products") EXCEPT
                 !.index = i, !.ok = (tasks[i].reply.status = "ok")])
    /\ UNCHANGED <<isAuth, isCheckingAuth, isLoading, templateProduct,
                   tempImageInput, modeType, cookie, srvProducts, started>>

\* deleteProduct(templateProduct.id) up to its first await, called by the
\* delete button
deleteProduct ==
    /\ modalShown /\ ~isPreview /\ ~isFormMode
    /\ Cardinality(Submits) < MaxSubmits
    /\ tasks' = Append(tasks,
          Task("deleteProduct", "delete", templateProduct.id, initialProduct))
    /\ Quiet([Op("deleteProduct") EXCEPT !.id = templateProduct.id])
    /\ UNCHANGED <<uiVars, draftVars, cookie, srvProducts, started>>

\* catch (error) { alert(...) }
deleteProductCatch(error) ==
    alerts' = << <<"deleteError", getErrorMessage(error)>> >>

\* the continuation of deleteProduct after its delete
deleteProductDone(i) ==
    /\ Answered(i, "deleteProduct", "delete")
    /\ LET t == tasks[i] IN
          /\ IF t.reply.status = "ok"
                THEN /\ alerts' = << <<"message", t.reply.message>> >>
                     /\ tasks' = [tasks EXCEPT ![i] =
                           Task("deleteProduct", "products", t.id, t.data)]
                ELSE /\ deleteProductCatch(t.reply.err)
                     /\ tasks' = RemoveAt(tasks, i)
          /\ lastOp' = [Op("deleteProduct.done") EXCEPT
                           !.id = t.id, !.index = i,
                           !.ok = (t.reply.status = "ok")]
    /\ thrown' = ""
    /\ UNCHANGED <<uiVars, draftVars, cookie, srvProducts, started>>

\* the continuation of deleteProduct after await getProducts()
deleteProductProducts(i) ==
    /\ Answered(i, "deleteProduct", "products")
    /\ submitProducts(i)
    /\ tasks' = RemoveAt(tasks, i)
    /\ Quiet([Op("deleteProduct.products") EXCEPT
                 !.index = i, !.ok = (tasks[i].reply.status = "ok")])
    /\ UNCHANGED <<isAuth, isCheckingAuth, isLoading, templateProduct,
                   tempImageInput, modeType, cookie, srvProducts, started>>

----------------------------------------------------------------------------
(* Session controller *)

handleLogin(account) ==
    /\ LoginShown
    /\ Len(tasks) < MaxTasks
    /\ isLoading' = TRUE
    /\ tasks' = Append(tasks, Task("handleLogin", "signin", account,
                                   initialProduct))
    /\ Quiet([Op("handleLogin") EXCEPT !.id = account])
    /\ UNCHANGED <<isAuth, isCheckingAuth, products, draftVars,
                   cookie, srvProducts, started>>

handleLoginCatchSwallow(error) ==
    /\ alerts' = << <<"loginError", getErrorMessage(error)>> >>
    /\ thrown' = ""
    /\ UNCHANGED <<isAuth, cookie, products>>

\* catch (error) { alert(...); throw error; }
handleLoginCatch(error) ==
    /\ alerts' = << <<"loginError", getErrorMessage(error)>> >>
    /\ thrown' = "handleLogin"
    /\ UNCHANGED <<isAuth, cookie, products>>

\* the continuation of handleLogin after the sign-in request
handleLoginSignedIn(i) ==
    /\ Answered(i, "handleLogin", "signin")
    /\ LET t == tasks[i] IN
          /\ IF t.reply.status = "ok"
                THEN /\ cookie' = setToken(t.reply.token)
                     /\ tasks' = [tasks EXCEPT ![i] =
                           Task("handleLogin", "products", t.id, t.data)]
                     /\ alerts' = <<>> /\ thrown' = ""
                     /\ UNCHANGED <<isAuth, isLoading, products>>
                ELSE /\ handleLoginCatch(t.reply.err)
                     /\ isLoading' = FALSE
                     /\ tasks' = RemoveAt(tasks, i)
          /\ lastOp' = [Op("handleLogin.signedIn") EXCEPT
                           !.id = t.id, !.index = i,
                           !.ok = (t.reply.status = "ok")]
    /\ UNCHANGED <<isCheckingAuth, draftVars, srvProducts, started>>

\* the continuation of handleLogin after await getProducts()
handleLoginProducts(i) ==
    /\ Answered(i, "handleLogin", "products")
    /\ products' = getProducts(tasks[i].reply, products)
    /\ isAuth' = TRUE
    /\ isLoading' = FALSE
    /\ tasks' = RemoveAt(tasks, i)
    /\ alerts' = <<>> /\ thrown' = ""
    /\ lastOp' = [Op("handleLogin.products") EXCEPT
                     !.id = tasks[i].id, !.index = i,
                     !.ok = (tasks[i].reply.status = "ok")]
    /\ UNCHANGED <<isCheckingAuth, draftVars, cookie, srvProducts, started>>

handleLogoutFinallyKeepList ==
    /\ cookie' = removeToken
    /\ isAuth' = FALSE
    /\ products' = products
    /\ isLoading' = FALSE

\* finally { removeToken(); setIsAuth(false); setProducts([]); ... }
handleLogoutFinally ==
    /\ cookie' = removeToken
    /\ isAuth' = FALSE
    /\ products' = <<>>
    /\ isLoading' = FALSE

LoggedOutAlert == << <<"loggedOut", "">> >>

handleLogout ==
    /\ DashboardShown
    /\ IF Falsy(getToken)
          THEN \* no await is reached: the handler runs to its end
               /\ alerts' = LoggedOutAlert
               /\ handleLogoutFinally
               /\ tasks' = tasks
               /\ lastOp' = [Op("handleLogout") EXCEPT !.id = "noToken"]
          ELSE /\ Len(tasks) < MaxTasks
               /\ isLoading' = TRUE
               /\ tasks' = Append(tasks, Task("handleLogout", "logout", "",
                                              initialProduct))
               /\ alerts' = <<>>
               /\ lastOp' = Op("handleLogout")
               /\ UNCHANGED <<isAuth, products, cookie>>
    /\ thrown' = ""
    /\ UNCHANGED <<isCheckingAuth, draftVars, srvProducts, started>>

\* the continuation of handleLogout after the logout request
handleLogoutDone(i) ==
    /\ Answered(i, "handleLogout", "logout")
    /\ alerts' = IF tasks[i].reply.status = "ok" THEN LoggedOutAlert ELSE <<>>
    /\ thrown' = ""
    /\ handleLogoutFinally
    /\ tasks' = RemoveAt(tasks, i)
    /\ lastOp' = [Op("handleLogout.done") EXCEPT
                     !.index = i, !.ok = (tasks[i].reply.status = "ok")]
    /\ UNCHANGED <<isCheckingAuth, draftVars, srvProducts, started>>

checkAdminNoTokenStuck ==
    /\ isAuth' = FALSE
    /\ isLoading' = TRUE
    /\ isCheckingAuth' = TRUE

\* if (!token) { setIsAuth(false); return; } and the finally block
checkAdminNoToken ==
    /\ isAuth' = FALSE
    /\ isLoading' = FALSE
    /\ isCheckingAuth' = FALSE

\* checkAdmin up to its first await, called by the mount effect
checkAdmin ==
    /\ ~started
    /\ started' = TRUE
    /\ IF Falsy(getToken)
          THEN /\ checkAdminNoToken
               /\ tasks' = tasks
               /\ lastOp' = [Op("checkAdmin") EXCEPT !.id = "noToken"]
          ELSE /\ Len(tasks) < MaxTasks
               /\ isLoading' = TRUE
               /\ isCheckingAuth' = TRUE
               /\ tasks' = Append(tasks, Task("checkAdmin", "verify", "",
                                              initialProduct))
               /\ lastOp' = Op("checkAdmin")
               /\ UNCHANGED isAuth
    /\ alerts' = <<>> /\ thrown' = ""
    /\ UNCHANGED <<products, draftVars, cookie, srvProducts>>

\* catch (error) { alert(...); setIsAuth(false); }
checkAdminCatch(error) ==
    /\ alerts' = << <<"checkError", getErrorMessage(error)>> >>
    /\ isAuth' = FALSE

\* else { setIsAuth(false); }
checkAdminInvalid ==
    /\ alerts' = <<>>
    /\ isAuth' = FALSE

checkAdminFinallyKeepChecking ==
    /\ isLoading' = FALSE
    /\ isCheckingAuth' = isCheckingAuth

\* finally { setIsLoading(false); setIsCheckingAuth(false); }
checkAdminFinally ==
    /\ isLoading' = FALSE
    /\ isCheckingAuth' = FALSE

\* the continuation of checkAdmin after the verification request
checkAdminVerified(i) ==
    /\ Answered(i, "checkAdmin", "verify")
    /\ LET t == tasks[i] IN
          /\ IF t.reply.status = "ok" /\ t.reply.success
                THEN /\ tasks' = [tasks EXCEPT ![i] =
                           Task("checkAdmin", "products", t.id, t.data)]
                     /\ alerts' = <<>>
                     /\ UNCHANGED <<isAuth, isLoading, isCheckingAuth>>
                ELSE /\ IF t.reply.status = "ok"
                           THEN checkAdminInvalid
                           ELSE checkAdminCatch(t.reply.err)
                     /\ checkAdminFinally
                     /\ tasks' = RemoveAt(tasks, i)
          /\ lastOp' = [Op("checkAdmin.verified") EXCEPT
                           !.index = i,
                           !.id = IF t.reply.status = "err" THEN "error"
                                  ELSE IF t.reply.success THEN "valid"
                                  ELSE "invalid",
                           !.ok = (t.reply.status = "ok" /\ t.reply.success)]
    /\ thrown' = ""
    /\ UNCHANGED <<products, draftVars, cookie, srvProducts, started>>

\* the continuation of checkAdmin after await getProducts()
checkAdminProducts(i) ==
    /\ Answered(i, "checkAdmin", "products")
    /\ products' = getProducts(tasks[i].reply, products)
    /\ isAuth' = TRUE
    /\ checkAdminFinally
    /\ tasks' = RemoveAt(tasks, i)
    /\ alerts' = <<>> /\ thrown' = ""
    /\ lastOp' = [Op("checkAdmin.products") EXCEPT
                     !.index = i, !.ok = (tasks[i].reply.status = "ok")]
    /\ UNCHANGED <<draftVars, cookie, srvProducts, started>>

----------------------------------------------------------------------------
(* Specifications *)

\* the application as mounted, with or without a stored credential
Init ==
    /\ isAuth = FALSE /\ isCheckingAuth = TRUE /\ isLoading = FALSE
    /\ products = <<>>
    /\ templateProduct = initialProduct
    /\ tempImageInput = ""
    /\ modeType = ""
    /\ modalShown = FALSE
    /\ cookie \in {"", Token}
    /\ srvProducts = ServerProducts
    /\ tasks = <<>>
    /\ started = FALSE
    /\ alerts = <<>> /\ thrown = "" /\ lastOp = NoOp

Next ==
    \/ checkAdmin
    \/ \E i \in DOMAIN tasks : ServeCheck(i)
    \/ \E i \in DOMAIN tasks : checkAdminVerified(i)
    \/ \E i \in DOMAIN tasks : ServeProducts(i)
    \/ \E i \in DOMAIN tasks : checkAdminProducts(i)
    \/ \E account \in Accounts : handleLogin(account)
    \/ \E i \in DOMAIN tasks : ServeSignin(i)
    \/ \E i \in DOMAIN tasks : handleLoginSignedIn(i)
    \/ \E i \in DOMAIN tasks : handleLoginProducts(i)
    \/ handleLogout
    \/ \E i \in DOMAIN tasks : ServeLogout(i)
    \/ \E i \in DOMAIN tasks : handleLogoutDone(i)
    \/ \E id \in ProductIds : updateProductStatus(id)
    \/ \E i \in DOMAIN tasks : ServePut(i)
    \/ \E i \in DOMAIN tasks : updateProductStatusDone(i)
    \/ cookieExpires

Spec == Init /\ [][Next]_vars

\* the application when every request is answered and every continuation of
\* the startup check runs: the mount effect is run by React after the first
\* render, the backend settles each request, and a settled await resumes
SpecLive ==
    /\ Spec
    /\ WF_vars(checkAdmin)
    /\ \A i \in 1..MaxTasks :
          /\ WF_vars(ServeCheck(i)) /\ WF_vars(checkAdminVerified(i))
          /\ WF_vars(ServeProducts(i)) /\ WF_vars(checkAdminProducts(i))

\* the dashboard after a successful startup check
InitImage ==
    /\ isAuth = TRUE /\ isCheckingAuth = FALSE /\ isLoading = FALSE
    /\ products = ServerProducts
    /\ templateProduct = initialProduct
    /\ tempImageInput = ""
    /\ modeType = ""
    /\ modalShown = FALSE
    /\ cookie = Token
    /\ srvProducts = ServerProducts
    /\ tasks = <<>>
    /\ started = TRUE
    /\ alerts = <<>> /\ thrown = "" /\ lastOp = NoOp

\* a product stored by another client of the backend: a primary image and
\* four secondary entries, one of them an empty url
LegacyProduct == Product("p4", 1, "a", <<"b", "", "a", "b">>)

\* a product the backend returns without imagesUrl
BareProduct ==
    [f \in DOMAIN initialProduct \ {"imagesUrl"} |->
        Product("p2", 0, "", <<>>)[f]]

\* the collection of the backend while the modal is used
\* a product stored by another client of the backend: secondary images and
\* no primary image
HeadlessProduct == Product("p6", 1, "", <<"b">>)

ModalProducts ==
    <<ServerProducts[1], BareProduct, LegacyProduct, HeadlessProduct>>

\* the dashboard with the product list loaded
InitModal ==
    /\ isAuth = TRUE /\ isCheckingAuth = FALSE /\ isLoading = FALSE
    /\ products = ModalProducts
    /\ templateProduct = initialProduct
    /\ tempImageInput = ""
    /\ modeType = ""
    /\ modalShown = FALSE
    /\ cookie = Token
    /\ srvProducts = ModalProducts
    /\ tasks = <<>>
    /\ started = TRUE
    /\ alerts = <<>> /\ thrown = "" /\ lastOp = NoOp

\* the buttons of the Dashboard can be used: the modal is not over them
DashboardClickable == DashboardShown /\ ~modalShown

\* the modal and its form, opened from the Dashboard
NextModal ==
    \/ DashboardClickable /\ openModal("add", initialProduct)
    \/ \E type \in {"edit", "delete", "preview"} :
          \E k \in DOMAIN products :
             DashboardClickable /\ openModal(type, products[k])
    \/ closeModal
    \/ \E e \in InputEvents : handleModalInputChange(e)
    \/ \E url \in {"a", ""} : setTempImageInput(url)
    \/ handleAddImage
    \/ \E index \in 0..MaxImages : handleRemoveImage(index)

SpecModal == InitModal /\ [][NextModal]_vars

\* the session operations while the stored credential does not expire
NextSession ==
    \/ checkAdmin
    \/ \E i \in DOMAIN tasks : ServeCheck(i)
    \/ \E i \in DOMAIN tasks : checkAdminVerified(i)
    \/ \E i \in DOMAIN tasks : ServeProducts(i)
    \/ \E i \in DOMAIN tasks : checkAdminProducts(i)
    \/ \E account \in Accounts : handleLogin(account)
    \/ \E i \in DOMAIN tasks : ServeSignin(i)
    \/ \E i \in DOMAIN tasks : handleLoginSignedIn(i)
    \/ \E i \in DOMAIN tasks : handleLoginProducts(i)
    \/ handleLogout
    \/ \E i \in DOMAIN tasks : ServeLogout(i)
    \/ \E i \in DOMAIN tasks : handleLogoutDone(i)

SpecSession == Init /\ [][NextSession]_vars

\* the session operations when every request is rejected
NextError ==
    \/ checkAdmin
    \/ \E account \in Accounts : handleLogin(account)
    \/ \E i \in DOMAIN tasks : ServeError(i)
    \/ \E i \in DOMAIN tasks : checkAdminVerified(i)
    \/ \E i \in DOMAIN tasks : handleLoginSignedIn(i)

SpecError == Init /\ [][NextError]_vars

\* the products the editor starts from
SubmitProducts == <<LegacyProduct>>

\* the dashboard with the product list loaded
InitSubmit ==
    /\ isAuth = TRUE /\ isCheckingAuth = FALSE /\ isLoading = FALSE
    /\ products = SubmitProducts
    /\ templateProduct = initialProduct
    /\ tempImageInput = ""
    /\ modeType = ""
    /\ modalShown = FALSE
    /\ cookie = Token
    /\ srvProducts = SubmitProducts
    /\ tasks = <<>>
    /\ started = TRUE
    /\ alerts = <<>> /\ thrown = "" /\ lastOp = NoOp

NextSubmit ==
    \/ DashboardClickable /\ openModal("add", initialProduct)
    \/ \E type \in {"edit", "delete"} : \E k \in DOMAIN products :
          DashboardClickable /\ openModal(type, products[k])
    \/ closeModal
    \/ updateProduct
    \/ \E i \in DOMAIN tasks : ServePost(i)
    \/ \E i \in DOMAIN tasks : ServePut(i)
    \/ \E i \in DOMAIN tasks : updateProductDone(i)
    \/ \E i \in DOMAIN tasks : ServeProducts(i)
    \/ \E i \in DOMAIN tasks : updateProductProducts(i)
    \/ deleteProduct
    \/ \E i \in DOMAIN tasks : ServeDelete(i)
    \/ \E i \in DOMAIN tasks : deleteProductDone(i)
    \/ \E i \in DOMAIN tasks : deleteProductProducts(i)

SpecSubmit == InitSubmit /\ [][NextSubmit]_vars

\* status toggles from the dashboard, every request of which succeeds
NextToggle ==
    \/ \E id \in ProductIds : updateProductStatus(id)
    \/ \E i \in DOMAIN tasks : ServePut(i) /\ tasks'[i].reply.status = "ok"
    \/ \E i \in DOMAIN tasks : updateProductStatusDone(i)

SpecToggle == InitImage /\ [][NextToggle]_vars

\* a product created through the modal, and the user logging out while its
\* requests are in flight; nothing is started once the logout runs
NextLogout ==
    \/ DashboardClickable /\ ~isLoading /\ openModal("add", initialProduct)
    \/ closeModal
    \/ ~isLoading /\ updateProduct
    \/ \E i \in DOMAIN tasks : ServePost(i)
    \/ \E i \in DOMAIN tasks : updateProductDone(i)
    \/ \E i \in DOMAIN tasks : ServeProducts(i)
    \/ \E i \in DOMAIN tasks : updateProductProducts(i)
    \/ DashboardClickable /\ handleLogout
    \/ \E i \in DOMAIN tasks : ServeLogout(i)
    \/ \E i \in DOMAIN tasks : handleLogoutDone(i)

SpecLogout == InitSubmit /\ [][NextLogout]_vars

\* the inputs the form is filled in with: the checkbox and a price
FormEvents == {e \in InputEvents : e.type \in {"checkbox", "number"}}

\* the form filled in and submitted to a backend that refuses the write
NextForm ==
    \/ DashboardClickable /\ openModal("add", initialProduct)
    \/ \E k \in DOMAIN products : DashboardClickable /\ openModal("edit", products[k])
    \/ closeModal
    \/ \E e \in FormEvents : handleModalInputChange(e)
    \/ updateProduct
    \/ \E i \in DOMAIN tasks : ServePost(i) /\ UNCHANGED srvProducts
    \/ \E i \in DOMAIN tasks : ServePut(i) /\ UNCHANGED srvProducts
    \/ \E i \in DOMAIN tasks : updateProductDone(i)

SpecForm == InitSubmit /\ [][NextForm]_vars

\* the image-slot manager on a draft opened from the blank template
NextImage ==
    \/ openModal("add", initialProduct)
    \/ closeModal
    \/ \E url \in Urls \cup {""} : setTempImageInput(url)
    \/ handleAddImage
    \/ \E index \in 0..(MaxImages - 1) : handleRemoveImage(index)

SpecImage == InitImage /\ [][NextImage]_vars

----------------------------------------------------------------------------
(* Properties *)

draft == templateProduct

\* C1: on a draft that starts blank, whatever addImage calls are made, the
\* draft never holds more than 4 images, and it holds a secondary image
\* only when it holds a primary one.
C1_ImageLimit ==
    /\ totalImages(draft) <= 4
    /\ Len(draft.imagesUrl) > 0 => draft.imageUrl # ""

\* an addImage call with a url was made on a full draft, which holds 4 images
C1_Witness ==
    /\ lastOp.op = "handleAddImage" /\ lastOp.id # "" /\ ~lastOp.ok
    /\ draft.imageUrl # "" /\ Len(draft.imagesUrl) = 3

\* C2: removeImage(0) makes the first secondary the primary and leaves the
\* other secondaries in their order; with no secondary it empties the
\* primary and leaves the secondaries empty.
C2_RemovePrimary ==
    [][ lastOp'.op = "handleRemoveImage" /\ lastOp'.index = 0 =>
          IF Len(draft.imagesUrl) > 0
             THEN /\ draft'.imageUrl = draft.imagesUrl[1]
                  /\ Len(draft'.imagesUrl) = Len(draft.imagesUrl) - 1
                  /\ \A j \in DOMAIN draft'.imagesUrl :
                        draft'.imagesUrl[j] = draft.imagesUrl[j + 1]
             ELSE draft'.imageUrl = "" /\ draft'.imagesUrl = <<>> ]_vars

\* removeImage(0) has promoted a secondary and secondaries remain
C2_Witness ==
    /\ lastOp.op = "handleRemoveImage" /\ lastOp.index = 0
    /\ draft.imageUrl # "" /\ Len(draft.imagesUrl) = 2
    /\ draft.imagesUrl[1] # draft.imagesUrl[2]

\* C3: removeImage(k) with k >= 1 addressing an existing secondary deletes
\* imagesUrl[k-1] (counted from 0) alone: the others keep their order and
\* the primary is unchanged.
C3_RemoveSecondary ==
    [][ /\ lastOp'.op = "handleRemoveImage"
        /\ lastOp'.index >= 1 /\ lastOp'.index <= Len(draft.imagesUrl)
        => /\ draft'.imageUrl = draft.imageUrl
           /\ Len(draft'.imagesUrl) = Len(draft.imagesUrl) - 1
           /\ \A j \in DOMAIN draft'.imagesUrl :
                 draft'.imagesUrl[j] =
                    IF j < lastOp'.index THEN draft.imagesUrl[j]
                                         ELSE draft.imagesUrl[j + 1] ]_vars

\* removeImage(1) has removed the first of three secondaries: two are left
C3_Witness ==
    /\ lastOp.op = "handleRemoveImage" /\ lastOp.index = 1
    /\ draft.imageUrl # "" /\ Len(draft.imagesUrl) = 2
    /\ draft.imagesUrl[1] # draft.imagesUrl[2]

\* the task a continuation step has resumed
Resumed == tasks[lastOp'.index]

\* C4 as stated: when handleLogin finishes after an accepted sign-in, isAuth
\* is true and the product list is the collection the backend returned.
C4_LoginPopulates ==
    [][ lastOp'.op = "handleLogin.products" =>
          /\ isAuth'
          /\ Resumed.reply.status = "ok"
          /\ products' = Resumed.reply.products ]_vars

\* C4 amended: when handleLogin finishes after an accepted sign-in, isAuth
\* is true; the product list is the collection the backend returned if the
\* product-list request succeeded, and is left as it was if it failed.
C4_LoginResult ==
    [][ lastOp'.op = "handleLogin.products" =>
          /\ isAuth'
          /\ Resumed.reply.status = "ok" => products' = Resumed.reply.products
          /\ Resumed.reply.status = "err" => products' = products ]_vars

\* a login has finished with the backend's collection as the product list
C4_Witness ==
    /\ lastOp.op = "handleLogin.products" /\ lastOp.ok
    /\ isAuth /\ products = srvProducts /\ products # <<>>

\* C5: when the sign-in request fails, handleLogin leaves isAuth as it was
\* (false), persists no token, fires exactly one alert, with the formatted
\* error, and rejects so that its caller sees the failure.
C5_LoginFailure ==
    [][ lastOp'.op = "handleLogin.signedIn" /\ ~lastOp'.ok =>
          /\ isAuth' = isAuth
          /\ cookie' = cookie
          /\ alerts' = << <<"loginError", getErrorMessage(Resumed.reply.err)>> >>
          /\ thrown' = "handleLogin" ]_vars

\* a sign-in was refused: not authenticated, no credential, one alert, thrown
C5_Witness ==
    /\ lastOp.op = "handleLogin.signedIn" /\ ~lastOp.ok
    /\ ~isAuth /\ cookie = "" /\ Len(alerts) = 1 /\ thrown = "handleLogin"

\* the step has completed a handleLogout
LogoutCompletes ==
    \/ lastOp'.op = "handleLogout.done"
    \/ lastOp'.op = "handleLogout" /\ lastOp'.id = "noToken"

\* C6: every completed handleLogout (no token stored, request succeeded,
\* request failed) leaves no credential, isAuth false and the product list
\* empty; a failed request fires no alert and nothing is thrown.
C6_LogoutClears ==
    [][ LogoutCompletes =>
          /\ cookie' = "" /\ ~isAuth' /\ products' = <<>>
          /\ thrown' = ""
          /\ (lastOp'.op = "handleLogout.done" /\ ~lastOp'.ok) => alerts' = <<>>
       ]_vars

\* a logout whose request failed has completed
C6_Witness ==
    /\ lastOp.op = "handleLogout.done" /\ ~lastOp.ok
    /\ cookie = "" /\ ~isAuth /\ products = <<>> /\ alerts = <<>>

\* C7: when the token verification of checkAdmin fails, by an error or by a
\* response with success=false, isAuth is set to false, an alert with the
\* formatted error fires and the stored credential is not cleared.
C7_VerifyFailureAlerts ==
    [][ lastOp'.op = "checkAdmin.verified" /\ ~lastOp'.ok =>
          /\ ~isAuth'
          /\ Len(alerts') = 1 /\ alerts'[1][1] = "checkError"
          /\ cookie' = cookie ]_vars

\* C8: checkAdmin with no stored credential issues no request, sets isAuth
\* to false and ends the check: isCheckingAuth and isLoading are false.
C8_NoTokenStops ==
    lastOp.op = "checkAdmin" /\ lastOp.id = "noToken" =>
        /\ tasks = <<>>
        /\ ~isAuth /\ ~isCheckingAuth /\ ~isLoading

\* the startup check has run with no stored credential
C8_Witness ==
    /\ lastOp.op = "checkAdmin" /\ lastOp.id = "noToken"
    /\ started /\ cookie = "" /\ ~isCheckingAuth

\* the other fields and the other products are as they were
StatusFrame(enabledOf(_)) ==
    /\ Len(products') = Len(products)
    /\ \A k \in DOMAIN products :
          IF products[k].id = lastOp'.id
             THEN products'[k] =
                     [products[k] EXCEPT !.is_enabled = enabledOf(products[k])]
             ELSE products'[k] = products[k]

Complement(item) == Num(1 - item.is_enabled[2])

Sent(item) == Resumed.data.is_enabled

C10_ToggleFailure ==
    [][ lastOp'.op \in {"updateProductStatus", "updateProductStatus.done"}
        /\ ~lastOp'.ok
        => products' = products /\ alerts' = <<>> /\ thrown' = "" ]_vars

\* a toggle request has failed while the list holds products
C10_Witness ==
    /\ lastOp.op = "updateProductStatus.done" /\ ~lastOp.ok
    /\ products # <<>> /\ alerts = <<>> /\ thrown = ""

\* C15 as stated: in a number field, an input that parses to a negative
\* number is stored as the string "0", the input "" as "", and any other
\* input as the unchanged raw string.
C15_NumberStoredAsText ==
    [][ lastOp'.op = "handleModalInputChange" /\ lastOp'.id = "origin_price" =>
          draft'.origin_price =
             IF lastOp'.value = "-5" THEN Str("0") ELSE Str(lastOp'.value) ]_vars

\* C15 amended: in a number field, an input that parses to a negative number
\* is stored as the number 0, the input "" as the string "", and any other
\* input as the unchanged raw string.
C15_NumberNormalized ==
    [][ lastOp'.op = "handleModalInputChange" /\ lastOp'.id = "origin_price" =>
          draft'.origin_price =
             IF lastOp'.value = "-5" THEN Num(0) ELSE Str(lastOp'.value) ]_vars

\* the input "-5" has been typed into the price field, which holds 0
C15_Witness ==
    /\ lastOp.op = "handleModalInputChange" /\ lastOp.id = "origin_price"
    /\ lastOp.value = "-5" /\ ToNumber(draft.origin_price) = 0

\* C16: whatever was done in the modal before, opening it in add mode leaves
\* the draft equal to the blank template.
C16_AddStartsBlank ==
    [][ lastOp'.op = "openModal" /\ lastOp'.id = "add" =>
          /\ draft' = initialProduct
          /\ draft'.imageUrl = "" /\ draft'.imagesUrl = <<>> ]_vars

\* the modal was used before (a url is still pending) and is opened in add
\* mode with the blank draft
C16_Witness ==
    /\ lastOp.op = "openModal" /\ lastOp.id = "add"
    /\ tempImageInput # "" /\ modalShown /\ draft = initialProduct

\* the product an openModal step was called with
Opened == IF lastOp'.index = 0 THEN initialProduct ELSE products[lastOp'.index]

C18_CloseOnlyHides ==
    [][ lastOp'.op = "closeModal" =>
          /\ ~modalShown'
          /\ UNCHANGED <<templateProduct, tempImageInput, modeType>>
          /\ UNCHANGED <<products, isAuth, isCheckingAuth, isLoading, cookie>>
       ]_vars

\* the modal was closed on an edited draft, which is kept with its mode
C18_Witness ==
    /\ lastOp.op = "closeModal" /\ ~modalShown
    /\ modeType = "edit" /\ draft.title = "t" /\ draft.id = "p1"

\* C20: whatever products of the list are opened and whatever images are
\* added and removed, the draft holds at most 4 images.
C20_DraftImageLimit == totalImages(draft) <= 4

\* the steps at which checkAdmin ends
CheckEnds ==
    \/ lastOp'.op = "checkAdmin" /\ lastOp'.id = "noToken"
    \/ lastOp'.op = "checkAdmin.verified" /\ lastOp'.id \in {"error", "invalid"}
    \/ lastOp'.op = "checkAdmin.products"

CheckInProgress ==
    ~started \/ \E i \in DOMAIN tasks : tasks[i].kind = "checkAdmin"

\* C19: isCheckingAuth starts true, is true exactly while the startup check
\* has not ended, changes only from true to false and only at the step that
\* ends the check (no token, verification failed or refused, verification and
\* list request done), which is reached when the check's requests complete;
\* the login and dashboard views are shown only while it is false.
C19_CheckingAuth ==
    /\ [](isCheckingAuth <=> CheckInProgress)
    /\ [][ /\ isCheckingAuth' # isCheckingAuth =>
                isCheckingAuth /\ ~isCheckingAuth' /\ CheckEnds
           /\ CheckEnds => isCheckingAuth /\ ~isCheckingAuth' ]_vars
    /\ []((LoginShown \/ DashboardShown) => ~isCheckingAuth)
    /\ <>[](~isCheckingAuth)

\* the check has ended on a refused token and the login view is shown
C19_Witness ==
    /\ lastOp.op = "checkAdmin.verified" /\ lastOp.id = "invalid"
    /\ ~isCheckingAuth /\ LoginShown

\* the steps that resume a handler after await getProducts()
ListSteps ==
    lastOp'.op \in {"updateProduct.products", "deleteProduct.products",
                    "handleLogin.products", "checkAdmin.products"}

\* C11: when its request succeeds getProducts replaces the product list by
\* exactly the returned collection, with nothing kept of the previous list;
\* when it fails the list is left as it was, and no error reaches the caller
\* and no alert is made.
C11_GetProductsReplaces ==
    [][ ListSteps =>
          /\ Resumed.reply.status = "ok" => products' = Resumed.reply.products
          /\ Resumed.reply.status = "err" => products' = products
          /\ thrown' = "" /\ alerts' = <<>> ]_vars

\* a list that held a product was replaced by the empty collection returned
\* after a delete
C11_Witness ==
    /\ lastOp.op = "deleteProduct.products" /\ lastOp.ok
    /\ products = <<>> /\ srvProducts = <<>>

\* the request created by an updateProduct or deleteProduct step
Submitted == tasks'[Len(tasks')]

\* C12: updateProduct sends a create when the mode is add and an update for
\* the draft's id otherwise; when a create, update or delete request
\* succeeds the list request is sent and the modal is not touched, and the
\* modal is closed at the step that resumes after the list request settled.
C12_SuccessRefetchesThenCloses ==
    [][ /\ lastOp'.op = "updateProduct" =>
              /\ Submitted.kind = "updateProduct"
              /\ Submitted.pc = IF modeType = "add" THEN "post" ELSE "put"
              /\ modeType # "add" => Submitted.id = draft.id
        /\ lastOp'.op = "deleteProduct" =>
              Submitted.pc = "delete" /\ Submitted.id = draft.id
        /\ (lastOp'.op \in {"updateProduct.done", "deleteProduct.done"}
              /\ lastOp'.ok) =>
              /\ Len(tasks') = Len(tasks)
              /\ tasks'[lastOp'.index].pc = "products"
              /\ tasks'[lastOp'.index].reply.status = "pending"
              /\ UNCHANGED <<modalShown, products>>
        /\ lastOp'.op \in {"updateProduct.products", "deleteProduct.products"} =>
              /\ Resumed.pc = "products" /\ Resumed.reply.status # "pending"
              /\ ~modalShown'
              /\ tasks' = RemoveAt(tasks, lastOp'.index) ]_vars

\* a create went through: the list holds the created product and the modal
\* is closed
C12_Witness ==
    /\ lastOp.op = "updateProduct.products" /\ lastOp.ok
    /\ ~modalShown /\ modeType = "add"
    /\ \E k \in DOMAIN products : products[k].id = NewId

\* C13: when a create, update or delete request fails, one alert is made with
\* the formatted error, of its own kind for create, update and delete; no
\* list request is sent, and the modal, the mode, the draft and the product
\* list are as they were.
C13_FailureKeepsModal ==
    [][ (lastOp'.op \in {"updateProduct.done", "deleteProduct.done"}
           /\ ~lastOp'.ok) =>
          /\ alerts' =
               << << IF lastOp'.op = "deleteProduct.done" THEN "deleteError"
                     ELSE IF Resumed.pc = "post" THEN "createError"
                     ELSE "updateError",
                     getErrorMessage(Resumed.reply.err) >> >>
          /\ tasks' = RemoveAt(tasks, lastOp'.index)
          /\ UNCHANGED <<modalShown, modeType, templateProduct, products>>
       ]_vars

\* a create failed: the create alert was made and the modal is open in add
\* mode
C13_Witness ==
    /\ lastOp.op = "updateProduct.done" /\ ~lastOp.ok
    /\ modalShown /\ modeType = "add"
    /\ alerts = << <<"createError", getErrorMessage(NetErr)>> >>

RECURSIVE WithoutEmpty(_)
WithoutEmpty(urls) ==
    IF urls = <<>> THEN <<>>
    ELSE (IF Head(urls) = "" THEN <<>> ELSE <<Head(urls)>>)
            \o WithoutEmpty(Tail(urls))

\* C14: the is_enabled that updateProduct submits is the number 1 or the
\* number 0, 1 exactly when the draft's value is truthy; the imagesUrl it
\* submits is the draft's with the empty strings removed, in order; the
\* draft is not changed by the submit.
C14_SubmittedData ==
    [][ lastOp'.op = "updateProduct" =>
          /\ Submitted.data.is_enabled \in {Num(1), Num(0)}
          /\ Submitted.data.is_enabled = Num(1) <=>
                draft.is_enabled \notin {Num(0), Bool(FALSE), Str("")}
          /\ Submitted.data.imagesUrl = WithoutEmpty(draft.imagesUrl)
          /\ draft' = draft ]_vars

\* the draft of the product with an empty secondary url was submitted with
\* the checkbox cleared
C14_Witness ==
    /\ lastOp.op = "updateProduct"
    /\ draft.id = "p4" /\ draft.is_enabled = Bool(FALSE)
    /\ draft.imagesUrl = <<"b", "", "a", "b">>
    /\ tasks[Len(tasks)].data.is_enabled = Num(0)
    /\ tasks[Len(tasks)].data.imagesUrl = <<"b", "a", "b">>

\* C21: addImage with an empty pending url, or on a draft that holds 4
\* images (or more), changes no field of the draft.
C21_AddImageNoOp ==
    [][ (lastOp'.op = "handleAddImage"
           /\ (tempImageInput = "" \/ totalImages(draft) >= 4)) =>
          /\ draft'.imageUrl = draft.imageUrl
          /\ draft'.imagesUrl = draft.imagesUrl
          /\ draft' = draft ]_vars

\* addImage was called with an empty pending url on a draft that holds a
\* primary image and room for more
C21_Witness ==
    /\ lastOp.op = "handleAddImage" /\ lastOp.id = "" /\ ~lastOp.ok
    /\ draft.imageUrl # "" /\ totalImages(draft) < 4

\* C26: in every draft state the rendered sequence allImages is as long as
\* the image count that the limit check of addImage uses.
C26_RenderedCount == Len(allImages(draft)) = totalImages(draft)

\* the steps at which a catch block formats the error of the resumed request
Caught ==
    \/ lastOp'.op = "handleLogin.signedIn" /\ ~lastOp'.ok
    \/ lastOp'.op = "checkAdmin.verified" /\ lastOp'.id = "error"

\* C22: getErrorMessage returns the response-body message when it is present
\* and not empty, otherwise the error's own message when that is present and
\* not empty, otherwise the fallback string; what it returns is never empty.
C22_ErrorMessageOrder ==
    [][ Caught =>
          LET error == Resumed.reply.err
              got   == alerts'[1][2] IN
             /\ Len(alerts') = 1
             /\ error.respMessage \notin {Undef, ""} => got = error.respMessage
             /\ (error.respMessage \in {Undef, ""}
                   /\ error.message \notin {Undef, ""}) => got = error.message
             /\ (error.respMessage \in {Undef, ""}
                   /\ error.message \in {Undef, ""}) => got = "unknown error"
             /\ got \notin {Undef, ""} ]_vars

\* a login was rejected with an error that has an empty response message and
\* no message of its own: the alert holds the fallback
C22_Witness ==
    /\ lastOp.op = "handleLogin.signedIn" /\ ~lastOp.ok
    /\ alerts = << <<"loginError", "unknown error">> >>

\* C23: once handleLogout has completed and until a login or a token check
\* succeeds (isAuth is false), the product list is empty, whatever requests
\* for the list were in flight when the logout was started.
C23_LoggedOutListEmpty == ~isAuth => products = <<>>

\* C24: a create, update or delete that completes closes an open modal only
\* if it was started from that opening of the modal. Stated by what an
\* opening fixes: the modal that the completion closes holds the draft id and
\* the mode that the request was started with.
C24_ClosesOwnOpening ==
    [][ (lastOp'.op \in {"updateProduct.products", "deleteProduct.products"}
           /\ modalShown /\ ~modalShown') =>
          /\ Resumed.id = draft.id
          /\ Resumed.kind = "deleteProduct" <=> modeType = "delete" ]_vars

\* C25: for every interleaving of toggles of one product whose requests all
\* succeed, once none is in flight the local is_enabled of the product is
\* the value of the last request the backend received (the value the backend
\* holds), and each successful toggle has flipped the local value.
C25_TogglesConverge ==
    /\ [](tasks = <<>> =>
            \A k \in DOMAIN products :
               products[k].is_enabled = srvProducts[k].is_enabled)
    /\ [][ (lastOp'.op = "updateProductStatus.done" /\ lastOp'.ok) =>
             \A k \in DOMAIN products :
                products[k].id = lastOp'.id =>
                   products'[k].is_enabled # products[k].is_enabled ]_vars

\* a login, a logout or a token check is suspended at an await
SessionInFlight ==
    \E i \in DOMAIN tasks :
       tasks[i].kind \in {"handleLogin", "handleLogout", "checkAdmin"}

\* C27: isLoading is true whenever a login, a logout or a token check is in
\* flight and false whenever none is.
C27_LoadingTracksSession == isLoading <=> SessionInFlight

\* C28: while the credential does not expire, isAuth is true only if a
\* credential is stored, for every interleaving of login, token check and
\* logout.
C28_AuthHasCredential == isAuth => cookie # ""

=============================================================================
